---- MODULE Spec2Model ----
(***************************************************************************)
(* A model of stoke's Z3 bridge, src/src/solver/z3solver.cc:               *)
(*   split_constraints, Z3Solver::is_sat (with its ExprConverter), and the *)
(*   model decoders get_model_bv, get_model_bool and get_model_array.      *)
(***************************************************************************)
EXTENDS Integers, Sequences, FiniteSets, Bags, TLC

(***************************************************************************)
(* Bounds of the model.                                                    *)
(***************************************************************************)
\* longest caller-supplied constraint vector handed to is_sat
MaxConstraints == 2

(***************************************************************************)
(* The term algebra (SymBool / SymBitVector nodes).  A node is a record    *)
(* [type, name, size, constant, kids]; its identity is its content.        *)
(***************************************************************************)
Node(t, n, s, c, k) == [type |-> t, name |-> n, size |-> s, constant |-> c, kids |-> k]

SymBitVectorVar(n, s)      == Node("BV_VAR", n, s, 0, <<>>)
SymBitVectorConstant(s, c) == Node("BV_CONSTANT", "", s, c, <<>>)
SymBitVectorSignDiv(a, b)  == Node("SIGN_DIV", "", a.size, 0, <<a, b>>)
SymBitVectorFunction(n, ret, args) == Node("FUNCTION", n, ret, 0, args)
SymBoolVar(n)              == Node("BOOL_VAR", n, 1, 0, <<>>)
SymBoolTrue                == Node("TRUE", "", 1, 0, <<>>)
SymBoolFalse               == Node("FALSE", "", 1, 0, <<>>)
SymBoolEq(a, b)            == Node("EQ", "", 1, 0, <<a, b>>)
SymBoolNot(b)              == Node("NOT", "", 1, 0, <<b>>)
SymBoolAnd(a, b)           == Node("AND", "", 1, 0, <<a, b>>)

\* SymBitVector::operator!= as used by the signed-division visitor: arg != zero
SymBitVectorNe(a, b) == SymBoolNot(SymBoolEq(a, b))

(***************************************************************************)
(* split_constraints                                                       *)
(***************************************************************************)
\* a plausible slip: the two operands are pushed without recursing into them
RECURSIVE split_constraints_norec(_)
split_constraints_norec(constraints) ==
  IF constraints = <<>> THEN <<>>
  ELSE LET n    == Len(constraints)
           it   == constraints[n]
           rest == split_constraints_norec(SubSeq(constraints, 1, n - 1))
       IN IF it.type = "AND"
            THEN <<it.kids[1], it.kids[2]>> \o rest
            ELSE Append(rest, it)

\* the loop of lines 46-57 unrolled from its last iteration: the vector built
\* by the earlier iterations, then this element's contribution
RECURSIVE split_constraints(_)
split_constraints(constraints) ==
  IF constraints = <<>> THEN <<>>
  ELSE LET n     == Len(constraints)
           it    == constraints[n]
           split == split_constraints(SubSeq(constraints, 1, n - 1))
       IN IF it.type = "AND"
            THEN split_constraints(<<it.kids[1], it.kids[2]>>) \o split
            ELSE Append(split, it)

(***************************************************************************)
(* SymTypecheckVisitor: the width of a well-typed term, 0 for an ill-typed *)
(* one (a boolean has width 1).                                            *)
(***************************************************************************)
RECURSIVE tc(_)
tc(e) ==
  CASE e.type \in {"BV_VAR", "BV_CONSTANT"} -> e.size
    [] e.type \in {"BOOL_VAR", "TRUE", "FALSE"} -> 1
    [] e.type = "SIGN_DIV" ->
         LET a == tc(e.kids[1])
             b == tc(e.kids[2])
         IN IF a # 0 /\ a = b THEN a ELSE 0
    [] e.type = "FUNCTION" ->
         IF \A i \in 1..Len(e.kids) : tc(e.kids[i]) # 0 THEN e.size ELSE 0
    [] e.type = "EQ" ->
         LET a == tc(e.kids[1])
             b == tc(e.kids[2])
         IN IF a # 0 /\ a = b THEN 1 ELSE 0
    [] e.type = "NOT" -> IF tc(e.kids[1]) = 1 THEN 1 ELSE 0
    [] e.type = "AND" ->
         IF tc(e.kids[1]) = 1 /\ tc(e.kids[2]) = 1 THEN 1 ELSE 0

(***************************************************************************)
(* ExprConverter: the Z3 term a node is lowered to.  A Z3 term is a record *)
(* [decl, sym, sort, num, args]; sort 0 is Bool, sort n > 0 is (_ BitVec   *)
(* n).                                                                     *)
(***************************************************************************)
Z3Term(d, y, s, n, a) == [decl |-> d, sym |-> y, sort |-> s, num |-> n, args |-> a]

RECURSIVE visit(_)
visit(e) ==
  CASE e.type = "BV_VAR"      -> Z3Term("bv_const", e.name, e.size, 0, <<>>)
    [] e.type = "BV_CONSTANT" -> Z3Term("bv_val", "", e.size, e.constant, <<>>)
    [] e.type = "SIGN_DIV"    ->
         Z3Term("bvsdiv", "", e.size, 0, <<visit(e.kids[1]), visit(e.kids[2])>>)
    [] e.type = "FUNCTION"    ->
         \* one to three arguments are applied; any other count falls through
         \* the switch to the one-argument application of line 446
         IF Len(e.kids) \in 1..3
           THEN Z3Term("app", e.name, e.size, 0, [i \in 1..Len(e.kids) |-> visit(e.kids[i])])
           ELSE Z3Term("app", e.name, e.size, 0, <<visit(e.kids[1])>>)
    [] e.type = "BOOL_VAR"    -> Z3Term("bool_const", e.name, 0, 0, <<>>)
    [] e.type = "TRUE"        -> Z3Term("true", "", 0, 0, <<>>)
    [] e.type = "FALSE"       -> Z3Term("false", "", 0, 0, <<>>)
    [] e.type = "EQ"          -> Z3Term("=", "", 0, 0, <<visit(e.kids[1]), visit(e.kids[2])>>)
    [] e.type = "NOT"         -> Z3Term("not", "", 0, 0, <<visit(e.kids[1])>>)
    [] e.type = "AND"         -> Z3Term("and", "", 0, 0, <<visit(e.kids[1]), visit(e.kids[2])>>)

\* the derived constraint of lines 508-511
DivisorGuard(b) == SymBitVectorNe(b, SymBitVectorConstant(b.size, 0))

\* a plausible slip: the divisor guard is built but never appended
NoGuard(ec, bv) == ec

\* line 512: constraints_.push_back(constraint)
PushGuard(ec, bv) == [ec EXCEPT !.constraints_ = Append(@, DivisorGuard(bv.kids[2]))]

Reverse(s) == [i \in 1..Len(s) |-> s[Len(s) + 1 - i]]

\* The side effects of (*this)(e) on the converter ec = [memo, constraints_,
\* error_]: a memoized node is not visited again; a signed division
\* pushes its guard before its operands are lowered; a function of more than
\* three arguments records an error.  order is the order in which the build
\* evaluates the operands of a call ("lr" or "rl").
\* SymMemoVisitor, the base of ExprConverter: a node already translated by
\* this converter is answered from its cache; a translated node is entered
Memoized(ec, e) == e \in ec.memo
Memoize(ec, e) == [ec EXCEPT !.memo = @ \cup {e}]

RECURSIVE Lower(_, _, _), LowerAll(_, _, _)
Lower(e, ec, order) ==
  IF Memoized(ec, e) THEN ec
  ELSE LET pushed == IF e.type = "SIGN_DIV" THEN PushGuard(ec, e) ELSE ec
           failed == IF e.type = "FUNCTION" /\ Len(e.kids) \notin 1..3
                       THEN [pushed EXCEPT !.error_ = "Function has too many arguments"]
                       ELSE pushed
           kids   == IF e.type = "FUNCTION" /\ Len(e.kids) \notin 1..3
                       THEN <<e.kids[1]>>
                       ELSE IF order = "lr" THEN e.kids ELSE Reverse(e.kids)
           done   == LowerAll(kids, failed, order)
       IN Memoize(done, e)
LowerAll(kids, ec, order) ==
  IF kids = <<>> THEN ec
  ELSE LowerAll(Tail(kids), Lower(Head(kids), ec, order), order)

(***************************************************************************)
(* The decision procedure's semantics of the lowered terms, by which a     *)
(* model satisfies an assertion.  A model assigns every constant a value.  *)
(***************************************************************************)
RECURSIVE Pow2(_)
Pow2(n) == IF n = 0 THEN 1 ELSE 2 * Pow2(n - 1)

ToSigned(v, w) == IF v >= Pow2(w - 1) THEN v - Pow2(w) ELSE v
ToUnsigned(v, w) == v % Pow2(w)
Abs(v) == IF v < 0 THEN -v ELSE v

\* SMT-LIB bvsdiv: truncating signed division; by zero it is 1 for a negative
\* dividend and all ones otherwise
bvsdiv(a, b, w) ==
  LET sa == ToSigned(a, w)
      sb == ToSigned(b, w)
      q  == Abs(sa) \div Abs(sb)
  IN IF b = 0 THEN (IF sa < 0 THEN 1 ELSE Pow2(w) - 1)
     ELSE ToUnsigned(IF (sa < 0) = (sb < 0) THEN q ELSE -q, w)

RECURSIVE Eval(_, _)
Eval(t, m) ==
  CASE t.decl \in {"bv_const", "bool_const"} -> m[t.sym]
    [] t.decl = "bv_val"  -> t.num
    [] t.decl = "bvsdiv"  -> bvsdiv(Eval(t.args[1], m), Eval(t.args[2], m), t.sort)
    [] t.decl = "true"    -> TRUE
    [] t.decl = "false"   -> FALSE
    [] t.decl = "="       -> Eval(t.args[1], m) = Eval(t.args[2], m)
    [] t.decl = "not"     -> ~Eval(t.args[1], m)
    [] t.decl = "and"     -> Eval(t.args[1], m) /\ Eval(t.args[2], m)

(***************************************************************************)
(* The constraints the bounded callers hand to is_sat.                     *)
(***************************************************************************)
X == SymBitVectorVar("x", 2)
Y == SymBitVectorVar("y", 2)
Z == SymBitVectorVar("z", 3)
B == SymBoolVar("b")
Zero == SymBitVectorConstant(2, 0)
One  == SymBitVectorConstant(2, 1)

\* x sdiv y = y sdiv x
DivEq      == SymBoolEq(SymBitVectorSignDiv(X, Y), SymBitVectorSignDiv(Y, X))
\* y sdiv (x sdiv y) = 1: a signed division inside a divisor
DivNested  == SymBoolEq(SymBitVectorSignDiv(Y, SymBitVectorSignDiv(X, Y)), One)
\* (y sdiv x = 1 /\ b) /\ y = 0: a nested conjunction, unsatisfiable
ConjDiv    == SymBoolAnd(SymBoolAnd(SymBoolEq(SymBitVectorSignDiv(Y, X), One), B),
                         SymBoolEq(Y, Zero))
\* x = z, of widths 2 and 3: ill-typed
IllTyped   == SymBoolEq(X, Z)
\* f(x, x, x, x) = 0: a function of four arguments
TooManyArgs == SymBoolEq(SymBitVectorFunction("f", 2, <<X, X, X, X>>), Zero)

ConstraintPool == {DivEq, DivNested, ConjDiv, IllTyped, TooManyArgs}
\* what SymAxiomVisitor may hand back for them: nothing, a conjunction (x # 0
\* /\ b), an ill-typed axiom (z = y), or a conjunction with an ill-typed
\* operand (z = y /\ b)
AxiomChoices == {<<>>, <<SymBoolAnd(SymBoolNot(SymBoolEq(X, Zero)), B)>>, <<SymBoolEq(Z, Y)>>,
                 <<SymBoolAnd(SymBoolEq(Z, Y), B)>>}

SeqsUpTo(S, n) == UNION {[1..k -> S] : k \in 0..n}

\* the models of the decision procedure over the constants in use
Models == [x : 0..3, y : 0..3, b : BOOLEAN]

ExternalInterrupt == "External interrupt."

VARIABLES
  \* Z3Solver members
  error_, model_, stop_now_, solver_,
  \* is_sat: arguments, locals, program counter, return value (read at "done")
  constraints, axioms, split, current, free_it, ec, pos, pc, ret,
  \* the decision procedure's answer to this call's check(), "none" before it
  result,
  \* history: stop_now_ on entry to is_sat; whether a sample of this call saw
  \* the flag set; the nodes lowered by this call
  flag_at_call, observed, visited,
  \* the last get_model_bool call: [n, ret, error_before], <<>> before any
  gmb,
  \* the vectors behind the pointers of is_sat.  Vector 0 is the local split
  \* (line 85), vector k > 0 the k-th one allocated by new (line 101):
  \* news counts the allocations (new_constraints points to vector news),
  \* cur_ptr is the vector current points to, deleted the operands of the
  \* delete expressions evaluated so far, in order
  news, cur_ptr, deleted

heapVars == <<news, cur_ptr, deleted>>

satVars == <<error_, model_, stop_now_, solver_, constraints, axioms, split, current,
             free_it, ec, pos, pc, ret, result, flag_at_call,
             observed, visited, gmb, heapVars>>

VARIABLES
  \* the decoder call in progress and its position
  dpc,
  \* get_model_bv: argument, model value, locals (bv_i is i), result, history: the
  \* windows extracted, whether every assertion passed
  bits, bv_model, octs, bv_i, bv_result, windows, aligned,
  \* get_model_array: model value, locals e (arr_e) and addr_val_map, result
  arr_model, arr_e, addr_val_map, arr_result

decVars == <<dpc, bits, bv_model, octs, bv_i, bv_result, windows, aligned,
             arr_model, arr_e, addr_val_map, arr_result>>

NoDecode ==
  /\ dpc = "none" /\ bits = 0 /\ bv_model = <<>> /\ octs = 0 /\ bv_i = 0
  /\ bv_result = <<>> /\ windows = <<>> /\ aligned = TRUE
  /\ arr_model = <<>> /\ arr_e = <<>> /\ addr_val_map = {} /\ arr_result = <<>>

VARIABLES
  \* a call of split_constraints on its own: argument, result, position
  sp_in, sp_out, sp_pc

splitVars == <<sp_in, sp_out, sp_pc>>

NoSplit == sp_in = <<>> /\ sp_out = <<>> /\ sp_pc = "none"

\* what is_sat leaves alone
otherVars == <<decVars, splitVars>>

NewConverter == [memo |-> {}, constraints_ |-> <<>>, error_ |-> ""]

InitSat ==
  /\ error_ = "" /\ model_ = <<>> /\ stop_now_ = FALSE /\ solver_ = <<>>
  /\ constraints = <<>> /\ axioms = <<>> /\ split = <<>> /\ current = <<>>
  /\ free_it = FALSE /\ ec = NewConverter /\ pos = 1
  /\ pc = "idle" /\ ret = FALSE /\ result = "none"
  /\ flag_at_call = FALSE /\ observed = FALSE /\ visited = {}
  /\ gmb = <<>>
  /\ news = 0 /\ cur_ptr = 0 /\ deleted = <<>>

\* Z3Solver::interrupt(), called by another thread or a signal handler
Interrupt ==
  /\ stop_now_ = FALSE
  /\ stop_now_' = TRUE
  /\ UNCHANGED <<error_, model_, solver_, constraints, axioms, split, current, free_it,
                 ec, pos, pc, ret, result, flag_at_call, observed, visited, gmb, heapVars>>
  /\ UNCHANGED otherVars

\* a plausible slip: the reset leaves the interrupt flag as it was
ResetKeepFlag(flag) == flag
\* line 72: stop_now_.store(false)
ResetFlag(flag) == FALSE

\* a plausible slip: the reset leaves the previous model in place
ResetKeepModel(m) == m
\* line 71: model_ = 0
ResetModel(m) == <<>>

\* a plausible slip: the assertions of the previous call stay in the solver
ResetKeepSolver(s) == s
\* line 73: solver_.reset()
ResetSolver(s) == <<>>

\* lines 63-88: reset, axioms, flattening
Call(cs, ax) ==
  /\ pc = "idle"
  /\ error_' = ""
  /\ model_' = ResetModel(model_)
  /\ stop_now_' = ResetFlag(stop_now_)
  /\ solver_' = ResetSolver(solver_)
  /\ constraints' = cs /\ axioms' = ax
  /\ split' = split_constraints(cs \o ax)
  /\ current' = split_constraints(cs \o ax)
  /\ free_it' = FALSE /\ ec' = NewConverter /\ pos' = 1
  /\ pc' = "while" /\ ret' = FALSE /\ result' = "none"
  /\ flag_at_call' = stop_now_ /\ observed' = FALSE
  /\ visited' = {} /\ gmb' = <<>>
  /\ news' = 0 /\ cur_ptr' = 0 /\ deleted' = <<>>
  /\ UNCHANGED otherVars

\* check_abort() finding the flag set, and the return false that follows it
Abort ==
  /\ error_' = ExternalInterrupt
  /\ ret' = FALSE /\ pc' = "done" /\ observed' = TRUE

\* lines 98-103: the loop test, the sample, the round's batch and converter
While ==
  /\ pc = "while"
  /\ IF Len(current) = 0
       THEN /\ pc' = "delete"
            /\ UNCHANGED <<error_, ret, observed, ec, pos, news>>
       ELSE IF stop_now_
         THEN Abort /\ UNCHANGED <<ec, pos, news>>
         ELSE /\ news' = news + 1
              /\ ec' = NewConverter /\ pos' = 1 /\ pc' = "for"
              /\ UNCHANGED <<error_, ret, observed>>
  /\ UNCHANGED <<model_, stop_now_, solver_, constraints, axioms, split, current,
                 free_it, result, flag_at_call, visited, gmb, cur_ptr, deleted>>
  /\ UNCHANGED otherVars

\* a plausible slip: the flag is not sampled before an atomic constraint
NoSample(flag) == FALSE
\* line 106: the sample taken before each atomic constraint
SampleForAtom(flag) == flag

\* lines 105-106: the next constraint of the batch, and the sample before it
For ==
  /\ pc = "for"
  /\ IF pos > Len(current)
       THEN /\ pc' = "endround"
            /\ UNCHANGED <<error_, ret, observed>>
       ELSE IF SampleForAtom(stop_now_)
         THEN Abort
         ELSE /\ pc' = "typecheck"
              /\ UNCHANGED <<error_, ret, observed>>
  /\ UNCHANGED <<model_, stop_now_, solver_, constraints, axioms, split, current,
                 free_it, ec, pos, result, flag_at_call, visited, gmb, heapVars>>
  /\ UNCHANGED otherVars

\* lines 112-121
Typecheck ==
  /\ pc = "typecheck"
  /\ IF tc(current[pos]) # 1
       THEN /\ error_' = "Typechecking failed for constraint"
            /\ ret' = FALSE /\ pc' = "done"
       ELSE /\ pc' = "convert" /\ UNCHANGED <<error_, ret>>
  /\ UNCHANGED <<model_, stop_now_, solver_, constraints, axioms, split, current,
                 free_it, ec, pos, result, flag_at_call, observed,
                 visited, gmb, heapVars>>
  /\ UNCHANGED otherVars

\* lines 127-131: lowering, with the guards it derives.  The operands of a
\* call are evaluated in an order the build chooses.  On an arity error the
\* converter runs into assert(false) (line 441): a build with assertions ends
\* the process there, a build without them goes on to record the error.
Convert ==
  /\ pc = "convert"
  /\ \E order \in {"lr", "rl"} :
       LET done == Lower(current[pos], ec, order)
       IN /\ ec' = done
          /\ visited' = visited \cup done.memo
          /\ IF done.error_ # ""
               THEN \/ error_' = done.error_ /\ ret' = FALSE /\ pc' = "done"
                    \/ pc' = "aborted" /\ UNCHANGED <<error_, ret>>
               ELSE pc' = "add" /\ UNCHANGED <<error_, ret>>
  /\ UNCHANGED <<model_, stop_now_, solver_, constraints, axioms, split, current,
                 free_it, pos, result, flag_at_call, observed, gmb, heapVars>>
  /\ UNCHANGED otherVars

\* a z3::exception thrown while lowering (line 127) or asserting (line 140):
\* no handler encloses these lines, so it leaves is_sat
Throw ==
  /\ pc \in {"convert", "add"}
  /\ pc' = "unhandled"
  /\ UNCHANGED <<error_, model_, stop_now_, solver_, constraints, axioms, split,
                 current, free_it, ec, pos, ret, result, flag_at_call, observed, visited, gmb, heapVars>>
  /\ UNCHANGED otherVars

\* line 140: solver_.add(constraint)
Add ==
  /\ pc = "add"
  /\ solver_' = Append(solver_, visit(current[pos]))
  /\ pos' = pos + 1
  /\ pc' = "for"
  /\ UNCHANGED <<error_, model_, stop_now_, constraints, axioms, split, current,
                 free_it, ec, ret, result, flag_at_call, observed, visited, gmb, heapVars>>
  /\ UNCHANGED otherVars

\* lines 143-147: the derived constraints become the next round's batch
EndRound ==
  /\ pc = "endround"
  /\ deleted' = IF free_it THEN Append(deleted, cur_ptr) ELSE deleted
  /\ free_it' = TRUE
  /\ current' = ec.constraints_
  /\ cur_ptr' = news
  /\ pc' = "while"
  /\ UNCHANGED <<error_, model_, stop_now_, solver_, constraints, axioms, split, ec,
                 pos, ret, result, flag_at_call, observed,
                 visited, gmb, news>>
  /\ UNCHANGED otherVars

\* line 149: delete current.  When no round ran, current is &split, which was
\* not allocated with new: undefined behaviour, which either goes unnoticed or
\* ends the process.
Delete ==
  /\ pc = "delete"
  /\ deleted' = Append(deleted, cur_ptr)
  /\ \/ pc' = "try"
     \/ ~free_it /\ pc' = "aborted"
  /\ UNCHANGED <<error_, model_, stop_now_, solver_, constraints, axioms, split,
                 current, free_it, ec, pos, ret, result, flag_at_call, observed, visited, gmb,
                 news, cur_ptr>>
  /\ UNCHANGED otherVars

\* line 156: the sample taken before the decision procedure
Try ==
  /\ pc = "try"
  /\ IF stop_now_
       THEN Abort
       ELSE pc' = "check" /\ UNCHANGED <<error_, ret, observed>>
  /\ UNCHANGED <<model_, stop_now_, solver_, constraints, axioms, split, current,
                 free_it, ec, pos, result, flag_at_call, visited, gmb, heapVars>>
  /\ UNCHANGED otherVars

Satisfies(m, assertions) == \A i \in 1..Len(assertions) : Eval(assertions[i], m)

\* lines 173-215: check() and the classification of its answer
Check ==
  /\ pc = "check"
  /\ \/ /\ \A m \in Models : ~Satisfies(m, solver_)
        /\ result' = "unsat" /\ ret' = FALSE
        /\ UNCHANGED <<error_, model_>>
     \/ \E m \in Models :
          /\ Satisfies(m, solver_)
          /\ result' = "sat" /\ ret' = TRUE /\ model_' = <<m>>
          /\ UNCHANGED error_
     \/ /\ result' = "unknown" /\ ret' = FALSE
        /\ error_' = "z3 gave up."
        /\ UNCHANGED model_
     \/ /\ result' = "exception" /\ ret' = FALSE
        /\ error_' = "Z3 encountered error"
        /\ UNCHANGED model_
  /\ pc' = "done"
  /\ UNCHANGED <<stop_now_, solver_, constraints, axioms, split, current, free_it, ec,
                 pos, flag_at_call, observed, visited, gmb, heapVars>>
  /\ UNCHANGED otherVars

\* is_sat has returned (or an exception has left it) and the caller goes on:
\* the locals are gone, the members stay as the call left them
Return ==
  /\ pc \in {"done", "unhandled"}
  /\ pc' = "idle"
  /\ constraints' = <<>> /\ axioms' = <<>> /\ split' = <<>> /\ current' = <<>>
  /\ free_it' = FALSE /\ ec' = NewConverter /\ pos' = 1
  /\ ret' = FALSE /\ result' = "none"
  /\ flag_at_call' = FALSE /\ observed' = FALSE /\ visited' = {} /\ gmb' = <<>>
  /\ news' = 0 /\ cur_ptr' = 0 /\ deleted' = <<>>
  /\ UNCHANGED <<error_, model_, stop_now_, solver_>>
  /\ UNCHANGED otherVars

NextSat ==
  \/ Interrupt
  \/ \E cs \in SeqsUpTo(ConstraintPool, MaxConstraints), ax \in AxiomChoices :
       Call(cs, ax)
  \/ While
  \/ For
  \/ Typecheck
  \/ Convert
  \/ Throw
  \/ Add
  \/ EndRound
  \/ Delete
  \/ Try
  \/ Check
  \/ Return


(***************************************************************************)
(* The model decoders.  A decoder call reads the value the model holds for *)
(* the queried variable: bv_model, the bits of a bit-vector variable       *)
(* (least significant first), or arr_model, the Z3 expression of an array  *)
(* variable; get_model_bool reads model_.                                  *)
(***************************************************************************)
\* widest bit-vector queried, in bytes
MaxBytes == 17
\* longest chain of stores in an array model value
MaxStores == 3

bvVars == <<bits, bv_model, octs, bv_i, bv_result, windows, aligned>>
arrVars == <<arr_model, arr_e, addr_val_map, arr_result>>
\* what no decoder writes
satFrame == <<stop_now_, solver_, constraints, axioms, split, current, free_it, ec,
              pos, pc, ret, result, flag_at_call, observed, visited, heapVars>>

---------------------------------------------------------------------------
\* the number a sequence of bits (least significant first) denotes
RECURSIVE BitsToNat(_)
BitsToNat(bs) == IF bs = <<>> THEN 0 ELSE Head(bs) + 2 * BitsToNat(Tail(bs))

\* Z3_mk_extract(high, low, v)
Extract(v, high, low) == SubSeq(v, low + 1, high + 1)

\* Z3_mk_bv2int(extract, true) evaluated and read by Z3_get_numeral_int64 into
\* a uint64_t: the 64 bits of the window's signed value in two's complement
Int64Bits(w) == [k \in 1..64 |-> IF k <= Len(w) THEN w[k] ELSE w[Len(w)]]

\* (oct >> (k*8)) & 0xff
OctByte(oct, k) == BitsToNat(SubSeq(oct, 8 * k + 1, 8 * k + 8))

\* a plausible slip: the number of windows rounded down
OctsFloor(n) == n \div 64
\* line 226: auto octs = (bits+63)/64
Octs(n) == (n + 63) \div 64

\* line 236
MaxBitsOf(w, n) == IF w * 64 + 63 > n THEN n - 1 ELSE w * 64 + 63

\* lines 243-247: the bytes of oct stored at positions j = w*8 ..
RECURSIVE StoreBytes(_, _, _, _, _)
StoreBytes(res, oct, j, k, end) ==
  IF j < end
    THEN StoreBytes([res EXCEPT ![j + 1] = OctByte(oct, k)], oct, j + 1, k + 1, end)
    ELSE res

\* a plausible slip: an indeterminate value gives false and no error
BoolErrorSilent(n, var, err) == err
\* lines 266-274: the error slot after get_model_bool
BoolError(n, var, err) ==
  IF n = 1 \/ n = -1 THEN err
  ELSE "Z3 returned invalid value 0 for boolean " \o var \o "."

\* lines 259-275: n is Z3_get_bool_value of the evaluated constant: 1 (true),
\* -1 (false) or 0 (neither)
GetModelBool(var, n) ==
  /\ dpc = "get_model_bool"
  /\ pc = "done" /\ model_ # <<>>
  /\ n \in {IF model_[1][var] THEN 1 ELSE -1, 0}
  /\ gmb' = <<[n |-> n, var |-> var, error_before |-> error_,
               ret |-> IF n = 1 THEN TRUE ELSE FALSE]>>
  /\ error_' = BoolError(n, var, error_)
  /\ UNCHANGED <<model_, stop_now_, solver_, constraints, axioms, split, current,
                 free_it, ec, pos, pc, ret, result, flag_at_call, observed, visited,
                 heapVars>>
  /\ UNCHANGED decVars
  /\ UNCHANGED splitVars

\* lines 225-231
GetModelBv ==
  /\ dpc = "get_model_bv"
  /\ octs' = Octs(bits)
  /\ bv_result' = [j \in 1..(bits \div 8) |-> 0]
  /\ bv_i' = 0
  /\ dpc' = "bv_loop"
  /\ UNCHANGED <<bits, bv_model, windows, aligned>>
  /\ UNCHANGED <<arrVars, error_, model_, gmb, satFrame>>
  /\ UNCHANGED splitVars

\* lines 233-248: one window
BvWindow ==
  /\ dpc = "bv_loop" /\ bv_i < octs
  /\ LET max_bits == MaxBitsOf(bv_i, bits)
         oct      == Int64Bits(Extract(bv_model, max_bits, bv_i * 64))
     IN /\ windows' = Append(windows, <<bv_i * 64, max_bits>>)
        /\ aligned' = (aligned /\ (max_bits + 1) % 8 = 0)
        /\ bv_result' = StoreBytes(bv_result, oct, bv_i * 8, 0, (max_bits + 1) \div 8)
  /\ bv_i' = bv_i + 1
  /\ UNCHANGED <<dpc, bits, bv_model, octs>>
  /\ UNCHANGED <<arrVars, error_, model_, gmb, satFrame>>
  /\ UNCHANGED splitVars

\* lines 250-252
BvReturn ==
  /\ dpc = "bv_loop" /\ ~(bv_i < octs)
  /\ dpc' = "bv_done"
  /\ UNCHANGED bvVars
  /\ UNCHANGED <<arrVars, error_, model_, gmb, satFrame>>
  /\ UNCHANGED splitVars

---------------------------------------------------------------------------
\* Z3 array expressions: [kind, args, key, value, entries]
Z3Store(a, k, v)   == [kind |-> "store", args |-> <<a>>, key |-> k, value |-> v, entries |-> <<>>]
Z3ConstArray(v)    == [kind |-> "const_array", args |-> <<>>, key |-> 0, value |-> v, entries |-> <<>>]
\* as-array of a function interpretation: its entries and its else value
Z3AsArray(es, v)   == [kind |-> "as_array", args |-> <<>>, key |-> 0, value |-> v, entries |-> es]
Z3ArrayMap         == [kind |-> "array_map", args |-> <<>>, key |-> 0, value |-> 0, entries |-> <<>>]
Z3Other            == [kind |-> "other", args |-> <<>>, key |-> 0, value |-> 0, entries |-> <<>>]

\* addr_val_map[addr] = bv_v on a map held as a set of <<addr, byte>> pairs
MapPut(m, addr, v) == {p \in m : p[1] # addr} \cup {<<addr, v>>}

RECURSIVE PutEntries(_, _)
PutEntries(m, es) ==
  IF es = <<>> THEN m
  ELSE PutEntries(MapPut(m, Head(es)[1], Head(es)[2]), Tail(es))

\* lines 281-297
GetModelArray ==
  /\ dpc = "get_model_array"
  /\ addr_val_map' = {}
  /\ arr_e' = arr_model
  /\ dpc' = "peel"
  /\ UNCHANGED <<arr_model, arr_result>>
  /\ UNCHANGED <<bvVars, error_, model_, gmb, satFrame>>
  /\ UNCHANGED splitVars

\* lines 299-317: one store peeled off
Peel ==
  /\ dpc = "peel" /\ arr_e.kind = "store"
  /\ addr_val_map' = MapPut(addr_val_map, arr_e.key, arr_e.value)
  /\ arr_e' = arr_e.args[1]
  /\ UNCHANGED <<dpc, arr_model, arr_result>>
  /\ UNCHANGED <<bvVars, error_, model_, gmb, satFrame>>
  /\ UNCHANGED splitVars

\* a plausible slip: the fallback drops the stores already peeled off
FallbackEmpty(m) == <<[first |-> {}, second |-> 0]>>
\* lines 370-371: pair<...> result(addr_val_map, 0), reached for an array-map
\* base (after the message of line 363) and for any other kind
Fallback(m) == <<[first |-> m, second |-> 0]>>

\* lines 319-371: the base of the chain.  For an as-array the z3::expr of the
\* else value is assigned to the uint8_t second itself (line 360), which
\* converts the handle, not the numeral: a non-null handle gives 1.
Base ==
  /\ dpc = "peel" /\ arr_e.kind # "store"
  /\ arr_result' =
       CASE arr_e.kind = "const_array" ->
              <<[first |-> addr_val_map, second |-> arr_e.value]>>
         [] arr_e.kind = "as_array" ->
              <<[first |-> PutEntries(addr_val_map, arr_e.entries), second |-> 1]>>
         [] OTHER -> Fallback(addr_val_map)
  /\ dpc' = "array_done"
  /\ UNCHANGED <<arr_model, arr_e, addr_val_map>>
  /\ UNCHANGED <<bvVars, error_, model_, gmb, satFrame>>
  /\ UNCHANGED splitVars

---------------------------------------------------------------------------
\* the bit-vector values decoded: a byte pattern repeated over the width
PatternByte(p, j) ==
  CASE p = "ones"  -> 255
    [] p = "sign"  -> 128
    [] p = "low"   -> 127
    [] p = "up"    -> j + 1
    [] p = "down"  -> 254 - j

BvValue(p, n) == [k \in 1..n |-> (PatternByte(p, (k - 1) \div 8) \div Pow2((k - 1) % 8)) % 2]

\* the array values decoded: chains of stores over each kind of base
Addrs == {0, 1, 2}
Bytes == {5, 255}
Bases == {Z3ConstArray(0), Z3ConstArray(255),
          Z3AsArray(<<>>, 5), Z3AsArray(<<<<1, 255>>, <<2, 5>>>>, 0),
          Z3ArrayMap, Z3Other}

RECURSIVE StoreChain(_, _)
StoreChain(updates, base) ==
  IF updates = <<>> THEN base
  ELSE Z3Store(StoreChain(Tail(updates), base), Head(updates)[1], Head(updates)[2])

\* a decoder is called on a model retained by a satisfiable is_sat
InitDecode ==
  /\ error_ = "" /\ stop_now_ = FALSE /\ solver_ = <<>>
  /\ constraints = <<>> /\ axioms = <<>> /\ split = <<>> /\ current = <<>>
  /\ free_it = TRUE /\ ec = NewConverter /\ pos = 1
  /\ pc = "done" /\ ret = TRUE /\ result = "sat"
  /\ flag_at_call = FALSE /\ observed = FALSE /\ visited = {}
  /\ gmb = <<>>
  /\ news = 1 /\ cur_ptr = 1 /\ deleted = <<1>>
  /\ \/ /\ dpc = "get_model_bool"
        /\ model_ \in {<<m>> : m \in Models}
        /\ bits = 0 /\ bv_model = <<>> /\ arr_model = <<>>
     \/ /\ dpc = "get_model_bv"
        /\ model_ = <<[x |-> 0, y |-> 0, b |-> FALSE]>>
        /\ \E n \in 1..MaxBytes, p \in {"ones", "sign", "low", "up", "down"} :
             bits = 8 * n /\ bv_model = BvValue(p, 8 * n)
        /\ arr_model = <<>>
     \/ /\ dpc = "get_model_array"
        /\ model_ = <<[x |-> 0, y |-> 0, b |-> FALSE]>>
        /\ bits = 0 /\ bv_model = <<>>
        /\ \E u \in SeqsUpTo(Addrs \X Bytes, MaxStores), base \in Bases :
             arr_model = StoreChain(u, base)
  /\ octs = 0 /\ bv_i = 0 /\ bv_result = <<>> /\ windows = <<>> /\ aligned = TRUE
  /\ arr_e = <<>> /\ addr_val_map = {} /\ arr_result = <<>>

NextDecode ==
  \/ \E n \in {-1, 0, 1} : GetModelBool("b", n)
  \/ GetModelBv
  \/ BvWindow
  \/ BvReturn
  \/ GetModelArray
  \/ Peel
  \/ Base


(***************************************************************************)
(* split_constraints on its own                                            *)
(***************************************************************************)
\* longest vector handed to split_constraints
MaxSplit == 3

NotB  == SymBoolNot(B)
XIs1  == SymBoolEq(X, One)
YIs0  == SymBoolEq(Y, Zero)
SplitPool ==
  {B, XIs1,
   SymBoolAnd(B, XIs1),
   SymBoolAnd(SymBoolAnd(XIs1, B), NotB),
   SymBoolAnd(NotB, SymBoolAnd(B, YIs0)),
   SymBoolAnd(SymBoolAnd(B, XIs1), SymBoolAnd(YIs0, NotB))}

InitSplit ==
  /\ sp_in \in SeqsUpTo(SplitPool, MaxSplit)
  /\ sp_out = <<>> /\ sp_pc = "call"

\* lines 44-59
Split ==
  /\ sp_pc = "call"
  /\ sp_out' = split_constraints(sp_in)
  /\ sp_pc' = "done"
  /\ UNCHANGED <<sp_in, satVars, decVars>>

(***************************************************************************)
(* The specifications                                                      *)
(***************************************************************************)
vars == <<satVars, decVars, splitVars>>

\* is_sat called again and again, with interrupts at any moment
Init == InitSat /\ NoDecode /\ NoSplit
Next == NextSat
Spec == Init /\ [][Next]_vars

\* one decoder call on a retained model
DecodeInit == InitDecode /\ NoSplit
SpecDecode == DecodeInit /\ [][NextDecode]_vars

\* one call of split_constraints
SplitInit == InitSat /\ NoDecode /\ InitSplit
SpecSplit == SplitInit /\ [][Split]_vars

(***************************************************************************)
(* Claims about is_sat, checked under Spec.                                *)
(***************************************************************************)
Range(s) == {s[i] : i \in DOMAIN s}

RECURSIVE Subterms(_)
Subterms(e) == {e} \cup UNION {Subterms(e.kids[i]) : i \in DOMAIN e.kids}

\* the signed divisions of this call: those lowered so far and those of the
\* caller's constraints and the axioms
SignDivsOfQuery ==
  {n \in visited \cup UNION {Subterms(c) : c \in Range(constraints \o axioms)} :
     n.type = "SIGN_DIV"}

\* C1 as stated: a call on a non-empty constraint set that was entered with
\* the interrupt flag set fails at once: it returns false with the
\* external-interrupt error, has lowered and asserted nothing and has not
\* invoked the decision procedure.
C1_FlagBeforeCallAborts ==
  (pc = "done" /\ flag_at_call /\ constraints # <<>>)
    => /\ ret = FALSE
       /\ error_ = ExternalInterrupt
       /\ visited = {} /\ solver_ = <<>>
       /\ result = "none"

\* C1 amended: is_sat clears the interrupt flag on entry, so a flag set before
\* the call is dropped; when the flag is set again after entry and is seen by
\* the first sample (the start of the first lowering round of a non-empty
\* batch), the call fails at once: false, the external-interrupt error,
\* nothing lowered or asserted, the decision procedure not invoked.
C1_FlagClearedOnEntry ==
  [][ /\ (pc = "idle" /\ pc' = "while") => ~stop_now_'
      /\ (pc = "while" /\ ~free_it /\ current # <<>> /\ stop_now_)
           => /\ pc' = "done" /\ ret' = FALSE
              /\ error_' = ExternalInterrupt
              /\ visited' = {} /\ solver_' = <<>>
              /\ result' = "none" ]_vars

\* C1 witness: a call entered with the flag set, on a non-empty set, that ran
\* to a satisfiable answer
C1_Witness ==
  pc = "done" /\ flag_at_call /\ constraints # <<>> /\ ret = TRUE /\ result = "sat"

\* C2: when is_sat has returned, an unsat answer gave false, no model and an
\* empty error slot; a sat answer gave true and a model; an unknown answer
\* gave false, no model and a non-empty error; and a model is retained exactly
\* when the call returned true, whatever the calls before it did.
C2_OutcomeClassified ==
  pc = "done" =>
    /\ result = "unsat"   => (ret = FALSE /\ model_ = <<>> /\ error_ = "")
    /\ result = "sat"     => (ret = TRUE /\ model_ # <<>>)
    /\ result = "unknown" => (ret = FALSE /\ model_ = <<>> /\ error_ # "")
    /\ (model_ # <<>>) <=> (ret = TRUE)

\* C2 witness: an unsat answer, told apart from unknown by the empty error slot
C2_Witness ==
  pc = "done" /\ result = "unsat" /\ ret = FALSE /\ model_ = <<>> /\ error_ = ""

\* C3 as stated: no exception raised by the decision procedure, at any step
\* of is_sat (lowering, asserting, checking), ever leaves is_sat.
C3_NoExceptionEscapes == pc # "unhandled"

\* C4: every signed division lowered by the converter of the current round
\* has its guard 'divisor != 0' in that round's pending batch; when the
\* decision procedure is about to be invoked, the guard of every signed
\* division lowered by this call has been typechecked, lowered and asserted;
\* and when is_sat has returned true, the model gives a non-zero value to the
\* divisor of every signed division of the query.
C4_DivisorGuarded ==
  /\ \A n \in ec.memo :
       n.type = "SIGN_DIV" => DivisorGuard(n.kids[2]) \in Range(ec.constraints_)
  /\ pc = "check" =>
       \A n \in SignDivsOfQuery :
         /\ tc(DivisorGuard(n.kids[2])) = 1
         /\ DivisorGuard(n.kids[2]) \in visited
         /\ visit(DivisorGuard(n.kids[2])) \in Range(solver_)
  /\ (pc = "done" /\ ret = TRUE) =>
       \A n \in SignDivsOfQuery : Eval(visit(n.kids[2]), model_[1]) # 0

\* C4 witness: is_sat returned true on a query with a signed division inside
\* a divisor
C4_Witness ==
  /\ pc = "done" /\ ret = TRUE
  /\ \E n \in SignDivsOfQuery : n.kids[2].type = "SIGN_DIV"

\* the places where is_sat samples the flag: the start of a lowering round,
\* before each atomic constraint, before the decision procedure
AtSample ==
  \/ pc = "while" /\ current # <<>>
  \/ pc = "for" /\ pos <= Len(current)
  \/ pc = "try"

\* C9: with the flag settable at any moment, is_sat starts a round, goes on
\* to typecheck an atomic constraint, and goes on to the decision procedure
\* only past a sample that found the flag clear; a sample that finds it set
\* makes is_sat return false with the external-interrupt error in that very
\* step, with nothing more typechecked, lowered or asserted and the decision
\* procedure not invoked.
C9_SampledAndPrompt ==
  [][ /\ (pc = "while" /\ pc' = "for") => ~stop_now_
      /\ (pc = "for" /\ pc' = "typecheck") => ~stop_now_
      /\ (pc = "try" /\ pc' = "check") => ~stop_now_
      /\ (pc' = "typecheck" /\ pc # "typecheck") => pc = "for"
      /\ (pc' = "check" /\ pc # "check") => pc = "try"
      /\ (AtSample /\ stop_now_) =>
           /\ pc' = "done" /\ ret' = FALSE /\ error_' = ExternalInterrupt
           /\ observed'
           /\ UNCHANGED <<solver_, visited, model_, result>>
      /\ observed' => (pc' = "done" /\ ret' = FALSE /\ error_' = ExternalInterrupt
                       /\ result' = "none" /\ model_' = <<>>) ]_vars

\* C9 witness: a call interrupted part-way, after it had asserted a term
C9_Witness ==
  pc = "done" /\ observed /\ solver_ # <<>> /\ error_ = ExternalInterrupt

\* C10: when the decision procedure is about to be invoked, every term
\* asserted in the solver is the lowering of a node lowered by the current
\* call, whatever the earlier calls asserted and however they ended.
C10_NoLeakAcrossCalls ==
  pc = "check" => \A t \in Range(solver_) : \E n \in visited : t = visit(n)

\* C10 witness: the decision procedure about to be invoked on derived guards
\* as well as the call's own constraints
C10_Witness ==
  pc = "check" /\ Len(solver_) > Len(split)


(***************************************************************************)
(* Claims about the decoders, checked under SpecDecode, and about          *)
(* split_constraints, checked under SpecSplit.                             *)
(***************************************************************************)
\* the byte a Z3 array expression holds at an address (store chains over a
\* constant array)
RECURSIVE Select(_, _)
Select(a, addr) ==
  IF a.kind = "store"
    THEN IF a.key = addr THEN a.value ELSE Select(a.args[1], addr)
    ELSE a.value

RECURSIVE BaseOf(_)
BaseOf(a) == IF a.kind = "store" THEN BaseOf(a.args[1]) ELSE a

\* the byte a decoded array gives an address: the mapped value, else the default
Decoded(r, addr) ==
  IF \E p \in r.first : p[1] = addr
    THEN (CHOOSE p \in r.first : p[1] = addr)[2]
    ELSE r.second

\* C5 as stated: for a chain of stores over a constant array, the decoded
\* mapping and default give every address the byte the model array holds
\* there (so the outermost store to an address is the one reported), and the
\* default is the constant array's value.
C5_ArrayRoundTrip ==
  (dpc = "array_done" /\ BaseOf(arr_model).kind = "const_array") =>
    /\ \A addr \in Addrs \cup {3} :
         Decoded(arr_result[1], addr) = Select(arr_model, addr)
    /\ arr_result[1].second = BaseOf(arr_model).value

Ceil64(n) == IF n % 64 = 0 THEN n \div 64 ELSE n \div 64 + 1
Min(a, b) == IF a < b THEN a ELSE b

\* C6: for a width N that is a multiple of 8, get_model_bv has extracted
\* exactly ceil(N/64) windows, window w covering bits 64w .. min(64w+63, N-1),
\* every byte-alignment assertion held, and byte j of the result is
\* (x >> 8j) mod 256 for every j < N/8.
C6_BvRoundTrip ==
  dpc = "bv_done" =>
    /\ Len(windows) = Ceil64(bits)
    /\ \A w \in 0..(Len(windows) - 1) :
         windows[w + 1] = <<64 * w, Min(64 * w + 63, bits - 1)>>
    /\ aligned
    /\ Len(bv_result) = bits \div 8
    /\ \A j \in 0..(bits \div 8 - 1) :
         bv_result[j + 1] = BitsToNat(SubSeq(bv_model, 8 * j + 1, 8 * j + 8))

\* C6 witness: a 128-bit value with distinct bytes rebuilt from two windows
C6_Witness ==
  /\ dpc = "bv_done" /\ bits = 128 /\ Len(windows) = 2
  /\ bv_result = [j \in 1..16 |-> j]

\* C7: get_model_bool gives true for a value the model evaluates to true and
\* false for one it evaluates to false, and leaves the error slot as it was;
\* for an indeterminate value it gives false and writes an error naming the
\* variable, so the error slot is not empty.
C7_BoolTriState ==
  gmb # <<>> =>
    LET g == gmb[1]
    IN /\ g.n = 1  => (g.ret = TRUE /\ model_[1][g.var] = TRUE /\ error_ = g.error_before)
       /\ g.n = -1 => (g.ret = FALSE /\ model_[1][g.var] = FALSE /\ error_ = g.error_before)
       /\ g.n = 0  => (g.ret = FALSE /\ error_ # ""
                       /\ error_ = "Z3 returned invalid value 0 for boolean " \o g.var \o ".")
       /\ g.ret = TRUE => g.n = 1

\* C7 witness: an indeterminate value was reported
C7_Witness ==
  gmb # <<>> /\ gmb[1].n = 0 /\ gmb[1].ret = FALSE /\ gmb[1].error_before = ""

RECURSIVE LeavesOf(_)
LeavesOf(c) ==
  IF c.type = "AND" THEN LeavesOf(c.kids[1]) \o LeavesOf(c.kids[2]) ELSE <<c>>

RECURSIVE AllLeaves(_)
AllLeaves(cs) == IF cs = <<>> THEN <<>> ELSE LeavesOf(Head(cs)) \o AllLeaves(Tail(cs))

Count(cs, c) == Cardinality({k \in DOMAIN cs : cs[k] = c})
SameBag(cs, ds) == \A c \in Range(cs) \cup Range(ds) : Count(cs, c) = Count(ds, c)

\* C8: the result of split_constraints holds no conjunction, its elements are
\* as a multiset the non-conjunction leaves of the input's AND trees, so every
\* model satisfies the result exactly when it satisfies the input; an input
\* without conjunctions comes back unchanged; and splitting the result again
\* changes nothing.
C8_SplitFlattens ==
  sp_pc = "done" =>
    /\ \A k \in DOMAIN sp_out : sp_out[k].type # "AND"
    /\ SameBag(sp_out, AllLeaves(sp_in))
    /\ \A m \in Models :
         (\A k \in DOMAIN sp_out : Eval(visit(sp_out[k]), m))
           <=> (\A k \in DOMAIN sp_in : Eval(visit(sp_in[k]), m))
    /\ (\A k \in DOMAIN sp_in : sp_in[k].type # "AND") => sp_out = sp_in
    /\ split_constraints(sp_out) = sp_out

\* C8 witness: an input with a conjunction nested in a conjunction, among
\* other constraints, has been split
C8_Witness ==
  /\ sp_pc = "done" /\ Len(sp_in) > 1
  /\ \E k \in DOMAIN sp_in :
       sp_in[k].type = "AND" /\ sp_in[k].kids[1].type = "AND"
  /\ Len(sp_out) > Len(sp_in)

---------------------------------------------------------------------------
\* the stores of a chain, outermost first
RECURSIVE StoresOf(_)
StoresOf(a) ==
  IF a.kind = "store" THEN <<<<a.key, a.value>>>> \o StoresOf(a.args[1]) ELSE <<>>

\* the byte the peel loop leaves for an address: each store peeled writes
\* its entry, so the last one peeled (the innermost) stays
InnermostByte(st, addr) ==
  LET hits == {k \in DOMAIN st : st[k][1] = addr}
  IN st[CHOOSE k \in hits : \A j \in hits : j <= k][2]

UnsupportedBase == dpc = "array_done" /\ BaseOf(arr_model).kind \in {"array_map", "other"}

\* C11 as stated: for an array-map base or a base of any other unrecognized
\* kind, get_model_array returns an empty address mapping with default byte
\* 0, whether or not stores were peeled off before the base was reached, and
\* the query is not failed (no error, the model is kept).
C11_EmptyFallback ==
  UnsupportedBase =>
    /\ arr_result = <<[first |-> {}, second |-> 0]>>
    /\ error_ = "" /\ ret = TRUE /\ model_ # <<>>

\* C11 amended: for such a base get_model_array returns the mapping built
\* while peeling, one entry for each address a peeled store writes (holding
\* the byte of the last store peeled for it) and so empty only when no store
\* was peeled, with default byte 0, and the query is not failed.
C11_PeeledFallback ==
  UnsupportedBase =>
    LET st == StoresOf(arr_model)
    IN /\ arr_result = <<[first |-> {<<a, InnermostByte(st, a)>> :
                                      a \in {st[k][1] : k \in DOMAIN st}},
                          second |-> 0]>>
       /\ error_ = "" /\ ret = TRUE /\ model_ # <<>>

\* an unsupported base reached after two stores were peeled off
C11_Witness ==
  /\ UnsupportedBase
  /\ Len(StoresOf(arr_model)) = 2
  /\ arr_result[1].first # {}

---------------------------------------------------------------------------
\* C15: on every path of is_sat that reaches the decision procedure, for
\* every input (the empty one included), the vectors is_sat has released are
\* exactly the ones it allocated itself, each released once, and the local
\* flattened vector (vector 0), which it does not own, is never released.
C15_OwnBatchesFreedOnce ==
  pc = "check" =>
    /\ \A k \in 1..news : Count(deleted, k) = 1
    /\ \A k \in DOMAIN deleted : deleted[k] \in 1..news

---------------------------------------------------------------------------
Max(S) == CHOOSE m \in S : \A k \in S : k <= m

\* the nesting depth of signed divisions inside divisors: 0 for a term without
\* a signed division, and a signed division counts one more than its divisor
RECURSIVE DivisorDepth(_)
DivisorDepth(e) ==
  Max({0} \cup {DivisorDepth(e.kids[k]) : k \in DOMAIN e.kids}
          \cup (IF e.type = "SIGN_DIV" THEN {1 + DivisorDepth(e.kids[2])} ELSE {}))

\* C14: the derived-constraint loop of is_sat terminates: the number of
\* rounds is at most one plus the deepest nesting of signed divisions inside
\* divisors over the flattened constraints, and the call ends in one of two
\* ways only, by returning an error or by reaching the decision procedure
\* with an empty pending batch (it is never left by an exception and never
\* ends the process).
C14_TerminatesInBoundedRounds ==
  /\ news <= 1 + Max({0} \cup {DivisorDepth(split[k]) : k \in DOMAIN split})
  /\ pc \in {"try", "check"} => current = <<>>
  /\ pc \notin {"unhandled", "aborted"}

---------------------------------------------------------------------------
\* the nodes of this call that a derived guard shares with the constraint it
\* was derived from: the sub-terms of the divisors of its signed divisions
\* (the guard is built around the divisor node itself, line 508).  Constants
\* are left out: the zero of a guard is a node of its own (line 510).
SharedWithGuards ==
  {n \in UNION {Subterms(d.kids[2]) : d \in SignDivsOfQuery} : n.type # "BV_CONSTANT"}

\* C13: within one is_sat call a node is translated to a solver term at most
\* once; in particular a node of a divisor, which reappears in the guard
\* derived from its signed division and processed in a later round, is not
\* translated again by a lowering step: no step translates a node this call
\* has translated before.
C13_LoweredOnce ==
  [][pc = "convert" =>
       (ec'.memo \ ec.memo) \cap visited \cap SharedWithGuards = {}]_vars

---------------------------------------------------------------------------
AmongAtoms(cs, ds) == \A c \in Range(cs) : Count(cs, c) <= Count(ds, c)

\* C12: in the first round, where is_sat typechecks and lowers the flattened
\* atoms, the atoms of the caller's constraints all come before any atom of
\* an axiom: the atoms processed so far are among the caller's, or include
\* them all.  So when a caller's atom is ill-typed, the typechecking error
\* that ends the call is for an atom of the caller.
C12_CallerAtomsFirst ==
  LET caller    == AllLeaves(constraints)
      processed == SubSeq(current, 1, pos)
  IN /\ (pc = "typecheck" /\ ~free_it) =>
          AmongAtoms(processed, caller) \/ AmongAtoms(caller, processed)
     /\ (/\ pc = "done" /\ ~free_it
         /\ error_ = "Typechecking failed for constraint"
         /\ \E k \in DOMAIN caller : tc(caller[k]) # 1) =>
          current[pos] \in Range(caller)

====
